---- MODULE Spec2Model ----
(***************************************************************************)
(* XsMemIo (src/src/XstoolsApi/xsmemio.py): the memory-access protocol of  *)
(* XSTOOLs.  One XsMemIo instance, its constructor, and the read and write *)
(* methods called by the threads of the application.  A bit array is a     *)
(* sequence of 0/1 whose element 1 is bit 0, the bit transmitted first.    *)
(***************************************************************************)
EXTENDS Integers, Sequences, FiniteSets, TLC

VARIABLES
    state,          \* "Uninitialized", "Ready" (__init__ returned) or "Failed" (__init__ raised)
    address_width,  \* self.address_width
    data_width,     \* self.data_width
    initError,      \* the exception __init__ raised, "none" if none
    sizeCall,       \* the send_rcv call of _get_mem_widths
    pc,             \* per thread: "idle", "read_rcv" or "write_rcv" (blocked in send_rcv)
    call,           \* per thread: the arguments of its current or last read/write and its send_rcv call
    ret,            \* per thread: how its last read/write ended
    opcodes,        \* the class attributes _NOP_OPCODE, _READ_OPCODE, _WRITE_OPCODE, _SIZE_OPCODE
    other,          \* a second XsMemIo instance: its state, widths and last payload
    \* gxstools.py
    active_board,   \* the global active_board: "None" or "Board"
    terminate,      \* active_board.xsusb.terminate of the attached board
    attached,       \* a board is attached to a USB port
    ports,          \* self._port_list.GetCount() of the port panel
    choice_posted,  \* an EVT_CHOICE event posted to the port list is pending
    test_enabled,   \* the Test button is enabled
    timer,          \* the GxsTimer is running
    subscribed,     \* per panel: its cleanup is subscribed to its Cleanup topic
    progress,       \* per panel: the dialog its progress attribute refers to, 0 if none yet
    dialog,         \* per operation: its GxsProgressDialog
    worker          \* per operation: its worker thread

\* The state of gxstools.py.
guivars == <<active_board, terminate, attached, ports, choice_posted,
             test_enabled, timer, subscribed, progress, dialog, worker>>

\* What the methods of the first instance leave alone.
outside == <<other, guivars>>

vars == <<state, address_width, data_width, initError, sizeCall, pc, call, ret,
          opcodes, outside>>

-----------------------------------------------------------------------------
(* Bounds of the model. *)

\* Threads calling read and write on the instance.
Threads == {1, 2}

\* The largest num_of_reads a caller passes to read.
MaxCount == 2

\* The longest data list a caller passes to write.
MaxWords == 2

\* The largest value of a word in a transport response.
MaxRespWord == 1

\* The largest number of transport calls of one operation a caller lets
\* complete before it aborts the operation.
MaxAbortAfter == 2

\* The number of operations the user starts from the panels.
MaxOps == 2

\* The values a Progress.Pct message carries are 1..MaxPct.
MaxPct == 1

\* (address width, data width) pairs the module reports in its SIZE result.
WidthPairs == {<<0, 0>>, <<0, 8>>, <<16, 0>>, <<3, 2>>, <<16, 8>>}

-----------------------------------------------------------------------------
(* XsBitarray *)

Bit == {0, 1}

RECURSIVE Pow2(_)
Pow2(n) == IF n <= 0 THEN 1 ELSE 2 * Pow2(n - 1)

\* from_int accepts num for num_of_bits bits.
FromIntOk(num, num_of_bits) == num >= 0 /\ num < Pow2(num_of_bits)

\* XsBitarray.from_int(num, num_of_bits): num_of_bits bits, bit 0 first.
from_int(num, num_of_bits) ==
    [i \in 1..num_of_bits |-> (num \div Pow2(i - 1)) % 2]

\* XsBitarray.to_int(): the unsigned value of the bits, bit 0 first.
RECURSIVE to_int(_)
to_int(bits) ==
    IF bits = <<>> THEN 0 ELSE Head(bits) + 2 * to_int(Tail(bits))

\* bits[start:] of a bit array (Python slice, clipped to the array).
SliceFrom(bits, start) ==
    IF start >= Len(bits) THEN <<>> ELSE SubSeq(bits, start + 1, Len(bits))

\* bits[:stop] of a bit array (Python slice, clipped to the array).
SliceTo(bits, stop) ==
    IF stop >= Len(bits) THEN bits ELSE SubSeq(bits, 1, stop)

-----------------------------------------------------------------------------
(* Memory opcodes: XsBitarray('b1b0'[::-1]) puts bit 0 first. *)

NOP_OPCODE == <<0, 0>>
READ_OPCODE == <<1, 1>>
WRITE_OPCODE == <<0, 1>>
SIZE_OPCODE == <<1, 0>>
SIZE_RESULT_LENGTH == 16
SKIP_CYCLES == 1

\* The class attributes as the class statement creates them.
ClassOpcodes ==
    [NOP |-> NOP_OPCODE, READ |-> READ_OPCODE, WRITE |-> WRITE_OPCODE,
     SIZE |-> SIZE_OPCODE]

\* A payload started as the opcode attribute itself, so that extending the
\* payload extends the attribute.
OpcodesAfterPayloadInPlace(name, payload) == [opcodes EXCEPT ![name] = payload]

\* XsBitarray(self._READ_OPCODE) and XsBitarray(self._WRITE_OPCODE) are copies:
\* extending the payload leaves the class attributes as they are.
OpcodesAfterPayload(name, payload) == opcodes


-----------------------------------------------------------------------------
(* XsHostIo.send_rcv(payload, num_result_bits): transmits payload, then    *)
(* samples num_result_bits bits of response, or raises.                    *)

\* How a send_rcv call ends: it returns the bits, or raises.
Outcomes == {"ok", "TransportError", "Cancelled"}

\* The values of the words the device may answer with, for a given width.
RespWordVals(width) == {v \in 0..MaxRespWord : FromIntOk(v, width)}

\* The responses of num_words words of width bits each.
RECURSIVE RespWords(_, _)
RespWords(num_words, width) ==
    IF num_words = 0 THEN {<<>>}
    ELSE {from_int(v, width) \o r :
            v \in RespWordVals(width), r \in RespWords(num_words - 1, width)}

\* The responses send_rcv may return to a read asking for num_result_bits bits.
ReadResponses(num_result_bits, width) ==
    IF width = 0 THEN {<<>>} ELSE RespWords(num_result_bits \div width, width)

\* What the link may deliver to a read asking for num_result_bits bits: all
\* of them, or a short response that lacks the last bit.
LinkResponses(num_result_bits, width) ==
    LET full == ReadResponses(num_result_bits, width)
    IN  full \cup {SubSeq(r, 1, Len(r) - 1) : r \in {q \in full : Len(q) >= 2}}

\* The caller's abort has arrived: it lets abort_after transport calls of an
\* operation complete, and c is call number c.sent.
Aborted(c, abort_after) == c.sent > abort_after

\* How the send_rcv call c ends when the link delivers the bits delivered:
\* it raises Cancelled on an abort and TransportError on a short response;
\* otherwise it returns the bits, or the link fails.
SendRcvOutcomes(c, delivered, abort_after) ==
    IF Aborted(c, abort_after) THEN {"Cancelled"}
    ELSE IF Len(delivered) < c.num_result_bits THEN {"TransportError"}
    ELSE {"ok", "TransportError"}

\* The responses send_rcv may return to the SIZE opcode: the skipped cycle,
\* then the two widths, each in half of the result.
SizeResponses ==
    {<<skip>> \o from_int(w[1], SIZE_RESULT_LENGTH \div 2)
              \o from_int(w[2], SIZE_RESULT_LENGTH \div 2) :
        skip \in Bit, w \in WidthPairs}

-----------------------------------------------------------------------------
(* _get_mem_widths *)

\* The number of result bits _get_mem_widths asks for.
SizeNumResultBits == SIZE_RESULT_LENGTH + SKIP_CYCLES

\* _get_mem_widths without the removal of the skipped cycles.
MemWidthsNoSkip(params) ==
    <<to_int(SliceTo(params, SIZE_RESULT_LENGTH \div 2)),
      to_int(SliceFrom(params, SIZE_RESULT_LENGTH \div 2))>>

\* _get_mem_widths with the two halves exchanged.
MemWidthsSwapped(params) ==
    LET p == SliceFrom(params, SKIP_CYCLES)
    IN  <<to_int(SliceFrom(p, SIZE_RESULT_LENGTH \div 2)),
          to_int(SliceTo(p, SIZE_RESULT_LENGTH \div 2))>>

\* params[SKIP_CYCLES:], then the two halves converted to integers.
MemWidths(params) ==
    LET p == SliceFrom(params, SKIP_CYCLES)
    IN  <<to_int(SliceTo(p, SIZE_RESULT_LENGTH \div 2)),
          to_int(SliceFrom(p, SIZE_RESULT_LENGTH \div 2))>>

\* __init__ with the assert on the data width left out.
InitAssertsAddressOnly(aw, dw) == aw # 0

\* __init__ with both asserts left out.
InitAssertsNone(aw, dw) == TRUE

\* The two asserts of __init__ on the widths.
InitAsserts(aw, dw) == aw # 0 /\ dw # 0

NoSizeCall == [sent |-> 0, payload |-> <<>>, num_result_bits |-> 0, response |-> <<>>]

\* XsMemIo.__init__: the SIZE transaction, the widths, the two asserts.
Init_(outcome, response) ==
    /\ state = "Uninitialized"
    /\ IF outcome # "ok"
       THEN /\ sizeCall' = [sent |-> sizeCall.sent + 1, payload |-> opcodes.SIZE,
                            num_result_bits |-> SizeNumResultBits, response |-> <<>>]
            /\ state' = "Failed"
            /\ initError' = outcome
            /\ UNCHANGED <<address_width, data_width>>
       ELSE LET w == MemWidths(response)
            IN  /\ sizeCall' = [sent |-> sizeCall.sent + 1, payload |-> opcodes.SIZE,
                                num_result_bits |-> SizeNumResultBits,
                                response |-> response]
                /\ address_width' = w[1]
                /\ data_width' = w[2]
                /\ IF InitAsserts(w[1], w[2])
                   THEN state' = "Ready" /\ initError' = "none"
                   ELSE state' = "Failed" /\ initError' = "AssertionError"
    /\ UNCHANGED <<pc, call, ret, opcodes>>
    /\ UNCHANGED outside

-----------------------------------------------------------------------------
(* read *)

NoCall == [op |-> "none", address |-> 0, num_of_reads |-> 0, data |-> <<>>,
           payload |-> <<>>, num_result_bits |-> 0, sent |-> 0, after |-> "none"]

NoRet == [status |-> "none", response |-> <<>>, kind |-> "none", words |-> <<>>,
          abort_after |-> 0]

\* The operation raised exc before any transport call.
Raised(exc) == [status |-> exc, response |-> <<>>, kind |-> "none", words |-> <<>>,
                abort_after |-> 0]

\* send_rcv raised exc after the link delivered response.
RaisedOn(exc, response) ==
    [status |-> exc, response |-> response, kind |-> "none", words |-> <<>>,
     abort_after |-> 0]

\* The exception the thread's last operation raised, "none" if it raised none.
LastException(t) == IF ret[t].status = "ok" THEN "none" ELSE ret[t].status

\* read encoding its address in one bit more than self.address_width.
ReadAddressOkWide(begin_address) == FromIntOk(begin_address, address_width + 1)

\* from_int accepts the address of read for self.address_width bits.
ReadAddressOk(begin_address) == FromIntOk(begin_address, address_width)

\* read starting its payload with the WRITE opcode.
ReadPayloadWriteOpcode(begin_address) ==
    WRITE_OPCODE \o from_int(begin_address, address_width)

\* read appending the address with its most significant bit first.
ReadPayloadMsbFirst(begin_address) ==
    LET a == from_int(begin_address, address_width)
    IN  READ_OPCODE \o [i \in 1..Len(a) |-> a[Len(a) + 1 - i]]

\* The payload of read: the READ opcode, then the address.
ReadPayload(begin_address) ==
    opcodes.READ \o from_int(begin_address, address_width)

\* read asking for one chunk of two words, whatever num_of_reads is.
ReadNumResultBitsOneChunk(num_of_reads) == data_width * 2

\* read asking for num_of_reads words only, without the extra first one.
ReadNumResultBitsNoExtra(num_of_reads) == data_width * num_of_reads

\* The number of result bits read asks for.
ReadNumResultBits(num_of_reads) == data_width * (num_of_reads + 1)

\* read keeping the first data value.
ReadDiscardNone(result) == result

\* result[self.data_width:]
ReadDiscard(result) == SliceFrom(result, data_width)

\* izip(*[iter(result)] * data_width): the consecutive data_width-bit groups.
Partition(result) ==
    [k \in 1..(Len(result) \div data_width) |->
        SubSeq(result, (k - 1) * data_width + 1, k * data_width)]

\* read returning a list of words whatever num_of_reads is.
ReadResultAlwaysList(response, num_of_reads) ==
    [status |-> "ok", response |-> response, kind |-> "list",
     words |-> Partition(ReadDiscard(response)), abort_after |-> 0]

\* What read returns for a response: one bit array, or a list of words.
ReadResult(response, num_of_reads) ==
    LET result == ReadDiscard(response)
    IN  IF num_of_reads = 1
        THEN [status |-> "ok", response |-> response, kind |-> "word",
              words |-> <<result>>, abort_after |-> 0]
        ELSE [status |-> "ok", response |-> response, kind |-> "list",
              words |-> Partition(result), abort_after |-> 0]

\* read up to its send_rcv call (or to the exception of from_int).
ReadCall(t, begin_address, num_of_reads) ==
    /\ state = "Ready"
    /\ pc[t] = "idle"
    /\ IF ReadAddressOk(begin_address)
       THEN /\ call' = [call EXCEPT ![t] =
                    [op |-> "read", address |-> begin_address,
                     num_of_reads |-> num_of_reads, data |-> <<>>,
                     payload |-> ReadPayload(begin_address),
                     num_result_bits |-> ReadNumResultBits(num_of_reads),
                     sent |-> 1, after |-> LastException(t)]]
            /\ pc' = [pc EXCEPT ![t] = "read_rcv"]
            /\ ret' = [ret EXCEPT ![t] = NoRet]
            /\ opcodes' = OpcodesAfterPayload("READ", ReadPayload(begin_address))
       ELSE /\ call' = [call EXCEPT ![t] =
                    [op |-> "read", address |-> begin_address,
                     num_of_reads |-> num_of_reads, data |-> <<>>,
                     payload |-> <<>>, num_result_bits |-> 0, sent |-> 0,
                     after |-> LastException(t)]]
            /\ ret' = [ret EXCEPT ![t] = Raised("OutOfRange")]
            /\ UNCHANGED <<pc, opcodes>>
    /\ UNCHANGED <<state, address_width, data_width, initError, sizeCall>>
    /\ UNCHANGED outside

\* read dropping the discovered data width when send_rcv raises.
ReadReturnReset(t, outcome, response, abort_after) ==
    /\ pc[t] = "read_rcv"
    /\ pc' = [pc EXCEPT ![t] = "idle"]
    /\ ret' = [ret EXCEPT ![t] =
            [(IF outcome = "ok" THEN ReadResult(response, call[t].num_of_reads)
              ELSE RaisedOn(outcome, response))
             EXCEPT !.abort_after = abort_after]]
    /\ data_width' = IF outcome = "ok" THEN data_width ELSE 0
    /\ UNCHANGED <<state, address_width, initError, sizeCall, call, opcodes>>
    /\ UNCHANGED outside

\* read catching the exception of send_rcv and calling send_rcv again.
ReadReturnRetry(t, outcome, response, abort_after) ==
    /\ pc[t] = "read_rcv"
    /\ IF outcome = "ok"
       THEN /\ pc' = [pc EXCEPT ![t] = "idle"]
            /\ ret' = [ret EXCEPT ![t] =
                    [ReadResult(response, call[t].num_of_reads)
                     EXCEPT !.abort_after = abort_after]]
            /\ UNCHANGED call
       ELSE /\ call' = [call EXCEPT ![t].sent = @ + 1]
            /\ UNCHANGED <<pc, ret>>
    /\ UNCHANGED <<state, address_width, data_width, initError, sizeCall, opcodes>>
    /\ UNCHANGED outside

\* read catching the exception of send_rcv and returning what it got.
ReadReturnSwallow(t, outcome, response, abort_after) ==
    /\ pc[t] = "read_rcv"
    /\ pc' = [pc EXCEPT ![t] = "idle"]
    /\ ret' = [ret EXCEPT ![t] =
            [ReadResult(response, call[t].num_of_reads)
             EXCEPT !.abort_after = abort_after]]
    /\ UNCHANGED <<state, address_width, data_width, initError, sizeCall, call, opcodes>>
    /\ UNCHANGED outside

\* read from the return of send_rcv on.
ReadReturn(t, outcome, response, abort_after) ==
    /\ pc[t] = "read_rcv"
    /\ pc' = [pc EXCEPT ![t] = "idle"]
    /\ ret' = [ret EXCEPT ![t] =
            [(IF outcome = "ok" THEN ReadResult(response, call[t].num_of_reads)
              ELSE RaisedOn(outcome, response))
             EXCEPT !.abort_after = abort_after]]
    /\ UNCHANGED <<state, address_width, data_width, initError, sizeCall, call, opcodes>>
    /\ UNCHANGED outside

-----------------------------------------------------------------------------
(* write *)

IntWord(v) == [kind |-> "int", v |-> v, bits |-> <<>>]
BitsWord(b) == [kind |-> "bits", v |-> 0, bits |-> b]

\* write encoding its address in one bit more than self.address_width.
WriteAddressOkWide(begin_address) == FromIntOk(begin_address, address_width + 1)

\* from_int accepts the address of write for self.address_width bits.
WriteAddressOk(begin_address) == FromIntOk(begin_address, address_width)

\* write cutting its integer words to self.data_width bits.
DataOkTruncating(data) == TRUE

\* from_int accepts every integer of data.
DataOk(data) ==
    \A i \in 1..Len(data) : data[i].kind = "int" => FromIntOk(data[i].v, data_width)

\* write encoding an integer word with its most significant bit first.
WordBitsMsbFirst(d) ==
    IF d.kind = "int"
    THEN [i \in 1..data_width |-> from_int(d.v, data_width)[data_width + 1 - i]]
    ELSE d.bits

\* The bits one element of data adds to the payload.
WordBits(d) ==
    IF d.kind = "int" THEN from_int(d.v, data_width) ELSE d.bits

RECURSIVE DataBits(_)
DataBits(data) ==
    IF data = <<>> THEN <<>> ELSE WordBits(Head(data)) \o DataBits(Tail(data))

\* The payload of write: the WRITE opcode, the address, the data.
WritePayload(begin_address, data) ==
    opcodes.WRITE \o from_int(begin_address, address_width) \o DataBits(data)

\* The assert of write on its payload.
WriteAssert(payload) == Len(payload) > Len(opcodes.WRITE)

\* The number of result bits write asks for.
WriteNumResultBits == 0

\* write up to its send_rcv call (or to an exception).
WriteCall(t, begin_address, data) ==
    /\ state = "Ready"
    /\ pc[t] = "idle"
    /\ LET failed(exc) ==
               /\ call' = [call EXCEPT ![t] =
                       [op |-> "write", address |-> begin_address,
                        num_of_reads |-> 0, data |-> data,
                        payload |-> <<>>, num_result_bits |-> 0, sent |-> 0,
                        after |-> LastException(t)]]
               /\ ret' = [ret EXCEPT ![t] = Raised(exc)]
               /\ UNCHANGED <<pc, opcodes>>
       IN  IF ~WriteAddressOk(begin_address) \/ ~DataOk(data)
           THEN failed("OutOfRange")
           ELSE IF ~WriteAssert(WritePayload(begin_address, data))
           THEN failed("AssertionError")
           ELSE /\ call' = [call EXCEPT ![t] =
                        [op |-> "write", address |-> begin_address,
                         num_of_reads |-> 0, data |-> data,
                         payload |-> WritePayload(begin_address, data),
                         num_result_bits |-> WriteNumResultBits, sent |-> 1,
                         after |-> LastException(t)]]
                /\ pc' = [pc EXCEPT ![t] = "write_rcv"]
                /\ ret' = [ret EXCEPT ![t] = NoRet]
                /\ opcodes' = OpcodesAfterPayload("WRITE",
                                                  WritePayload(begin_address, data))
    /\ UNCHANGED <<state, address_width, data_width, initError, sizeCall>>
    /\ UNCHANGED outside

\* write asking the module for its widths again once send_rcv returned.
WriteReturnRequery(t, outcome, abort_after) ==
    /\ pc[t] = "write_rcv"
    /\ pc' = [pc EXCEPT ![t] = "idle"]
    /\ ret' = [ret EXCEPT ![t] =
            [status |-> outcome, response |-> <<>>, kind |-> "none", words |-> <<>>,
             abort_after |-> abort_after]]
    /\ sizeCall' = [sizeCall EXCEPT !.sent = @ + 1]
    /\ UNCHANGED <<state, address_width, data_width, initError, call, opcodes>>
    /\ UNCHANGED outside

\* write dropping the discovered address width when send_rcv raises.
WriteReturnReset(t, outcome, abort_after) ==
    /\ pc[t] = "write_rcv"
    /\ pc' = [pc EXCEPT ![t] = "idle"]
    /\ ret' = [ret EXCEPT ![t] =
            [status |-> outcome, response |-> <<>>, kind |-> "none", words |-> <<>>,
             abort_after |-> abort_after]]
    /\ address_width' = IF outcome = "ok" THEN address_width ELSE 0
    /\ UNCHANGED <<state, data_width, initError, sizeCall, call, opcodes>>
    /\ UNCHANGED outside

\* write from the return of send_rcv on.
WriteReturn(t, outcome, abort_after) ==
    /\ pc[t] = "write_rcv"
    /\ pc' = [pc EXCEPT ![t] = "idle"]
    /\ ret' = [ret EXCEPT ![t] =
            [status |-> outcome, response |-> <<>>, kind |-> "none", words |-> <<>>,
             abort_after |-> abort_after]]
    /\ UNCHANGED <<state, address_width, data_width, initError, sizeCall, call, opcodes>>
    /\ UNCHANGED outside

-----------------------------------------------------------------------------
(* The callers. *)

\* The addresses a caller passes.
Addresses == {-1, 1, Pow2(address_width) - 1, Pow2(address_width)}

\* The num_of_reads a caller passes.
Counts == -1..MaxCount

\* When a caller aborts an operation: before its first transport call
\* completes, or after up to MaxAbortAfter of them have completed.
AbortAfters == 0..MaxAbortAfter

\* The elements of a data list: integers, and bit arrays of data_width
\* bits or of one bit more.
DataWords ==
    {IntWord(1), IntWord(Pow2(data_width)),
     BitsWord(from_int(2, data_width)), BitsWord(from_int(1, data_width + 1))}

RECURSIVE SeqsUpTo(_, _)
SeqsUpTo(S, n) ==
    IF n = 0 THEN {<<>>}
    ELSE SeqsUpTo(S, n - 1) \cup
         {Append(s, x) : s \in {q \in SeqsUpTo(S, n - 1) : Len(q) = n - 1}, x \in S}

\* The data lists a caller passes.
DataLists == SeqsUpTo(DataWords, MaxWords)

\* The second instance before its constructor has run.
NoOther ==
    [state |-> "Uninitialized", address_width |-> 0, data_width |-> 0,
     response |-> <<>>, address |-> 0, payload |-> <<>>, sent |-> 0]

\* XsMemIo.__init__ of the second instance, on the response of its module.
OtherInit(response) ==
    /\ other.state = "Uninitialized"
    /\ LET w == MemWidths(response)
       IN  other' = [other EXCEPT
                        !.state = IF InitAsserts(w[1], w[2]) THEN "Ready" ELSE "Failed",
                        !.address_width = w[1],
                        !.data_width = w[2],
                        !.response = response]
    /\ UNCHANGED <<state, address_width, data_width, initError, sizeCall, pc,
                   call, ret, opcodes, guivars>>

\* read of the second instance, up to its send_rcv call.
OtherRead(begin_address) ==
    /\ other.state = "Ready"
    /\ FromIntOk(begin_address, other.address_width)
    /\ LET payload == opcodes.READ \o from_int(begin_address, other.address_width)
       IN  /\ other' = [other EXCEPT !.address = begin_address,
                                     !.payload = payload,
                                     !.sent = 1]
           /\ opcodes' = OpcodesAfterPayload("READ", payload)
    /\ UNCHANGED <<state, address_width, data_width, initError, sizeCall, pc,
                   call, ret, guivars>>

-----------------------------------------------------------------------------
(* gxstools.py: the panels, their progress dialogs and worker threads, the  *)
(* timer and the port panel.  PUBSUB.sendMessage calls the subscribed       *)
(* listeners before it returns, in the thread that sends.                   *)

\* The panels that start operations, and the operations of each: those with
\* a button bound to their handler (the Erase button of the SDRAM panel is
\* commented out).
Panels == {"Flash", "Sdram", "Fpga", "Micro", "Test"}

Operations ==
    {"FlashDownload", "FlashUpload", "FlashErase", "SdramDownload",
     "SdramUpload", "FpgaConfig", "MicroUpdate", "Test"}

PanelOf(op) ==
    CASE op \in {"FlashDownload", "FlashUpload", "FlashErase"} -> "Flash"
      [] op \in {"SdramDownload", "SdramUpload"} -> "Sdram"
      [] op = "FpgaConfig" -> "Fpga"
      [] op = "MicroUpdate" -> "Micro"
      [] op = "Test" -> "Test"

\* The operations the user starts are numbered in the order of their start.
Ops == 1..MaxOps

\* value is self._value and bar the value the bar shows; pct_sent is the value
\* of the last Progress.Pct message the dialog was called with, 0 if none, and
\* pct_error whether a call of on_progress_change has raised.
NoDialog ==
    [created |-> FALSE, panel |-> "none", listening |-> FALSE, destroyed |-> 0,
     abort |-> FALSE, close_error |-> FALSE, value |-> 0, bar |-> 0,
     pct_sent |-> 0, pct_error |-> FALSE]

\* cleaned is the dialog the cleanup called by the thread's Cleanup message
\* destroyed, 0 if none.
NoWorker ==
    [pc |-> "none", op |-> "none", outcome |-> "none", cleanups |-> 0,
     cleaned |-> 0]

\* The memory protocol of the sections above takes no step.
memvars == <<state, address_width, data_width, initError, sizeCall, pc, call,
             ret, opcodes, other>>

GuiInit ==
    /\ active_board = "None"
    /\ terminate = FALSE
    /\ attached = FALSE
    /\ ports = 0
    /\ choice_posted = FALSE
    /\ test_enabled = FALSE
    /\ timer = TRUE
    /\ subscribed = [p \in Panels |-> FALSE]
    /\ progress = [p \in Panels |-> 0]
    /\ dialog = [d \in Ops |-> NoDialog]
    /\ worker = [w \in Ops |-> NoWorker]

\* GxsProgressDialog.Destroy on dialog d: the three unsubscribes, then
\* wx.ProgressDialog.Destroy.
Destroy(dlg, d) ==
    [dlg EXCEPT ![d].listening = FALSE, ![d].destroyed = @ + 1]

\* A dialog without wx.PD_APP_MODAL disables its parent's frame while it
\* exists: the buttons of the panels take no event.
InputEnabled ==
    \A d \in Ops : dialog[d].created => dialog[d].destroyed >= 1

\* The number of the next operation.
NextOp == Cardinality({d \in Ops : dialog[d].created}) + 1

\* XSBOARD.XsUsb.get_xsusb_ports(): the user attaches or detaches the board.
Attach ==
    /\ attached' = ~attached
    /\ UNCHANGED <<active_board, terminate, ports, choice_posted, test_enabled,
                   timer, subscribed, progress, dialog, worker>>
    /\ UNCHANGED memvars

\* The global active_board after GxsPortPanel.update_port_connections.
BoardAfterUpdate ==
    LET num_boards == IF attached THEN 1 ELSE 0
    IN  IF num_boards = ports THEN active_board
        ELSE IF num_boards = 0 THEN "None" ELSE "Board"

\* The dialogs whose on_pulse gets Pulse()[0] false: the user has aborted.
PulseAborted == {d \in Ops : dialog[d].listening /\ dialog[d].abort}

\* GxsProgressDialog.close on dialog d with the global active_board = board:
\* it raises AttributeError on None, before Destroy.
close(dlg, d, board) ==
    IF board = "None" THEN [dlg EXCEPT ![d].close_error = TRUE]
    ELSE Destroy(dlg, d)

\* GxsTimer.Notify: Port.Update (update_port_connections of the port panel),
\* then Progress.Pulse (on_pulse of every dialog subscribed).
Notify ==
    /\ timer
    /\ LET num_boards == IF attached THEN 1 ELSE 0
           board == BoardAfterUpdate
       IN  /\ ports' = num_boards
           /\ active_board' = board
           /\ choice_posted' = (choice_posted \/ num_boards # ports)
           /\ dialog' = [d \in Ops |->
                            IF d \in PulseAborted THEN close(dialog, d, board)[d]
                            ELSE dialog[d]]
           /\ terminate' = (terminate \/ (PulseAborted # {} /\ board # "None"))
    /\ UNCHANGED <<attached, test_enabled, timer, subscribed, progress, worker>>
    /\ UNCHANGED memvars

\* GxsPortPanel.on_port_change, on the posted EVT_CHOICE event; the Test panel
\* gets the Status.Board message.
on_port_change ==
    /\ choice_posted
    /\ choice_posted' = FALSE
    /\ active_board' = IF ports > 0 THEN "Board" ELSE "None"
    /\ test_enabled' = (ports > 0)
    /\ UNCHANGED <<terminate, attached, ports, timer, subscribed, progress,
                   dialog, worker>>
    /\ UNCHANGED memvars

\* The handler of the button of operation op (on_download, on_upload,
\* on_erase, on_config, on_update_firmware, on_test): it subscribes cleanup,
\* creates the progress dialog and starts the worker thread.
on_button(op) ==
    /\ InputEnabled
    /\ op = "Test" => test_enabled
    /\ NextOp \in Ops
    /\ LET n == NextOp
           p == PanelOf(op)
       IN  /\ subscribed' = [subscribed EXCEPT ![p] = TRUE]
           /\ dialog' = [dialog EXCEPT ![n] =
                            [NoDialog EXCEPT !.created = TRUE, !.panel = p,
                                             !.listening = TRUE]]
           /\ progress' = [progress EXCEPT ![p] = n]
           /\ timer' = IF op = "MicroUpdate" THEN FALSE ELSE timer
           /\ worker' = [worker EXCEPT ![n] =
                            [NoWorker EXCEPT !.pc = "started", !.op = op]]
    /\ UNCHANGED <<active_board, terminate, attached, ports, choice_posted,
                   test_enabled>>
    /\ UNCHANGED memvars

\* The user presses Cancel on dialog d.
Cancel(d) ==
    /\ dialog[d].created
    /\ dialog[d].destroyed = 0
    /\ ~dialog[d].abort
    /\ dialog' = [dialog EXCEPT ![d].abort = TRUE]
    /\ UNCHANGED <<active_board, terminate, attached, ports, choice_posted,
                   test_enabled, timer, subscribed, progress, worker>>
    /\ UNCHANGED memvars

\* run of worker w, up to the call of the method of active_board: on None the
\* attribute lookup raises AttributeError, which run does not catch.
run_begin(w) ==
    /\ worker[w].pc = "started"
    /\ worker' = [worker EXCEPT ![w].pc =
                     IF active_board = "None" THEN "crashed" ELSE "running"]
    /\ UNCHANGED <<active_board, terminate, attached, ports, choice_posted,
                   test_enabled, timer, subscribed, progress, dialog>>
    /\ UNCHANGED memvars

\* The dialogs subscribed to the Progress topics.
Listening == {d \in Ops : dialog[d].listening}

\* GxsProgressDialog.on_progress_change(value) on dialog d: the first
\* statement assigns the name msg, which is not defined, to self._value, so
\* the call raises NameError before self._value is set and before Update.
on_progress_change(dlg, d, value) ==
    [dlg EXCEPT ![d].pct_sent = value, ![d].pct_error = TRUE]

\* GxsProgressDialog.on_phase_change on dialog d: Update shows self._value
\* with the new message, and close follows if the user has aborted.
on_phase_change(dlg, d, board) ==
    LET shown == [dlg EXCEPT ![d].bar = dlg[d].value]
    IN  IF dlg[d].abort THEN close(shown, d, board) ELSE shown

\* What an exception of a listener does to the thread that sent the message:
\* it leaves sendMessage into the method of the board, which handles it or
\* not; run itself catches XsTerminate and XsError only.
AfterListenerError == {"running", "crashed"}

\* The method of the board that worker w runs sends Progress.Pct with value
\* v: the first listener called raises, and the message goes no further.
Progress_Pct(w, v) ==
    /\ worker[w].pc = "running"
    /\ \E d \in Listening :
          dialog' = [dialog EXCEPT ![d] = on_progress_change(dialog, d, v)[d]]
    /\ \E after \in AfterListenerError :
          worker' = [worker EXCEPT ![w].pc = after]
    /\ UNCHANGED <<active_board, terminate, attached, ports, choice_posted,
                   test_enabled, timer, subscribed, progress>>
    /\ UNCHANGED memvars

\* The method of the board that worker w runs sends Progress.Phase: every
\* dialog subscribed shows its value again; an aborted one closes, which
\* raises on active_board None.
Progress_Phase(w) ==
    /\ worker[w].pc = "running"
    /\ Listening # {}
    /\ LET aborted == {d \in Listening : dialog[d].abort}
           raised == aborted # {} /\ active_board = "None"
       IN  /\ dialog' = [d \in Ops |->
                            IF d \in Listening
                            THEN on_phase_change(dialog, d, active_board)[d]
                            ELSE dialog[d]]
           /\ terminate' = (terminate \/ (aborted # {} /\ active_board # "None"))
           /\ \E after \in AfterListenerError :
                 /\ after = "crashed" => raised
                 /\ worker' = [worker EXCEPT ![w].pc = after]
    /\ UNCHANGED <<active_board, attached, ports, choice_posted, test_enabled,
                   timer, subscribed, progress>>
    /\ UNCHANGED memvars

\* How the method of the board may end: XsTerminate needs the terminate flag.
RunOutcomes ==
    {"Success", "XsError"} \cup (IF terminate THEN {"XsTerminate"} ELSE {})

\* run of worker w from the return of the method of the board: on each of
\* the three ways it sends the Cleanup message of its panel, which calls the
\* cleanup of the panel if it is subscribed, and then shows the result.
run_end(w, outcome) ==
    /\ worker[w].pc = "running"
    /\ outcome \in RunOutcomes
    /\ LET p == PanelOf(worker[w].op)
       IN  /\ worker' = [worker EXCEPT ![w].pc = "done", ![w].outcome = outcome,
                                       ![w].cleanups = @ + 1,
                                       ![w].cleaned = IF subscribed[p]
                                                      THEN progress[p] ELSE 0]
           /\ subscribed' = [subscribed EXCEPT ![p] = FALSE]
           /\ dialog' = IF subscribed[p] THEN Destroy(dialog, progress[p])
                        ELSE dialog
    /\ terminate' = IF outcome = "XsTerminate" THEN FALSE ELSE terminate
    /\ UNCHANGED <<active_board, attached, ports, choice_posted, test_enabled,
                   timer, progress>>
    /\ UNCHANGED memvars

NextGui ==
    \/ Attach
    \/ Notify
    \/ on_port_change
    \/ \E op \in Operations : on_button(op)
    \/ \E d \in Ops : Cancel(d)
    \/ \E w \in Ops : run_begin(w)
    \/ \E w \in Ops, v \in 1..MaxPct : Progress_Pct(w, v)
    \/ \E w \in Ops : Progress_Phase(w)
    \/ \E w \in Ops, outcome \in {"Success", "XsError", "XsTerminate"} :
          run_end(w, outcome)

Init ==
    /\ state = "Uninitialized"
    /\ address_width = 0
    /\ data_width = 0
    /\ initError = "none"
    /\ sizeCall = NoSizeCall
    /\ pc = [t \in Threads |-> "idle"]
    /\ call = [t \in Threads |-> NoCall]
    /\ ret = [t \in Threads |-> NoRet]
    /\ opcodes = ClassOpcodes
    /\ other = NoOther
    /\ GuiInit

\* The constructor, run once by the thread that creates the instance.
Construct ==
    \E outcome \in Outcomes, response \in SizeResponses : Init_(outcome, response)

\* Thread t gets the answer of the send_rcv call of its read: the caller
\* aborts or not, the link delivers nothing, a short response or all the bits.
ReadAnswer(t) ==
    /\ pc[t] = "read_rcv"
    /\ \E abort_after \in AbortAfters :
          \E delivered \in
                IF Aborted(call[t], abort_after) THEN {<<>>}
                ELSE {<<>>} \cup LinkResponses(call[t].num_result_bits, data_width) :
             \E outcome \in SendRcvOutcomes(call[t], delivered, abort_after) :
                /\ (outcome = "TransportError" =>
                       (delivered = <<>> \/ Len(delivered) < call[t].num_result_bits))
                /\ ReadReturn(t, outcome, delivered, abort_after)

\* Thread t gets the answer of the send_rcv call of its write.
WriteAnswer(t) ==
    /\ pc[t] = "write_rcv"
    /\ \E abort_after \in AbortAfters :
          \E outcome \in SendRcvOutcomes(call[t], <<>>, abort_after) :
             WriteReturn(t, outcome, abort_after)

\* One caller: every read and write returns before the next one is called.
Next ==
    \/ Construct
    \/ \E a \in Addresses, n \in Counts : ReadCall(1, a, n)
    \/ ReadAnswer(1)
    \/ \E a \in Addresses, data \in DataLists : WriteCall(1, a, data)
    \/ WriteAnswer(1)

Spec == Init /\ [][Next]_vars

\* Several threads share the instance and call read and write at any time.
ConcCounts == {1}
ConcDataLists == {<<BitsWord(from_int(2, data_width)), IntWord(1)>>,
                  <<IntWord(2), BitsWord(from_int(1, data_width))>>}

NextConc ==
    \/ Construct
    \/ \E t \in Threads, n \in ConcCounts : ReadCall(t, 1, n)
    \/ \E t \in Threads : ReadAnswer(t)
    \/ \E t \in Threads, data \in ConcDataLists : WriteCall(t, 1, data)
    \/ \E t \in Threads : WriteAnswer(t)

SpecConc == Init /\ [][NextConc]_vars

\* The application: the user, the timer and the worker threads.
SpecGui == Init /\ [][NextGui]_vars

\* Two instances, each on its own module; one caller of each.
TwoAddresses == {1, 2}

NextTwo ==
    \/ Construct
    \/ \E a \in TwoAddresses, n \in ConcCounts : ReadCall(1, a, n)
    \/ ReadAnswer(1)
    \/ \E a \in TwoAddresses, data \in ConcDataLists : WriteCall(1, a, data)
    \/ WriteAnswer(1)
    \/ \E response \in SizeResponses : OtherInit(response)
    \/ \E a \in TwoAddresses : OtherRead(a)

SpecTwo == Init /\ [][NextTwo]_vars

-----------------------------------------------------------------------------
(* Properties. *)

\* Thread t's last read has returned a value.
ReadReturned(t) ==
    call[t].op = "read" /\ pc[t] = "idle" /\ ret[t].status = "ok"

\* Thread t's last write has returned without an exception.
WriteReturned(t) ==
    call[t].op = "write" /\ pc[t] = "idle" /\ ret[t].status = "ok"

\* The k-th word (k = 0 is the first one) of a response of data_width-bit words.
ResponseWord(response, k) ==
    SubSeq(response, k * data_width + 1, (k + 1) * data_width)

\* C1: a read of count >= 1 words that got the words [garbage, W1, ..., Wcount]
\* from the transport returns exactly W1, ..., Wcount, in that order: the
\* first data_width bits of the response are in no word it returns.
C1_ReadDiscardsFirstWord ==
    \A t \in Threads :
        (/\ ReadReturned(t)
         /\ call[t].num_of_reads >= 1
         /\ Len(ret[t].response) = (call[t].num_of_reads + 1) * data_width)
        => ret[t].words =
             [k \in 1..call[t].num_of_reads |-> ResponseWord(ret[t].response, k)]

\* A read of two words returned them, and the discarded first word differs
\* from the first word returned.
C1_Witness ==
    /\ ReadReturned(1)
    /\ call[1].num_of_reads = 2
    /\ ResponseWord(ret[1].response, 0) # ResponseWord(ret[1].response, 1)
    /\ ret[1].words = <<ResponseWord(ret[1].response, 1),
                        ResponseWord(ret[1].response, 2)>>

\* C2: every read that reaches the transport sends the 2-bit READ opcode
\* followed by the address in address_width bits, a payload of
\* 2 + address_width bits, and asks for (count + 1) * data_width result bits;
\* a read whose address fits in address_width bits makes that one call.
C2_ReadFraming ==
    \A t \in Threads :
        call[t].op = "read" =>
            /\ (call[t].address >= 0 /\ call[t].address < Pow2(address_width))
                   => call[t].sent = 1
            /\ call[t].sent >= 1 =>
                /\ Len(call[t].payload) = 2 + address_width
                /\ SubSeq(call[t].payload, 1, 2) = READ_OPCODE
                /\ to_int(SubSeq(call[t].payload, 3, 2 + address_width))
                       = call[t].address
                /\ call[t].num_result_bits
                       = (call[t].num_of_reads + 1) * data_width

\* A read of two words at address 1 is waiting for its response.
C2_Witness ==
    /\ pc[1] = "read_rcv"
    /\ call[1].address = 1
    /\ call[1].num_of_reads = 2
    /\ call[1].num_result_bits = 3 * data_width

\* The bits of the i-th element of data as the claim frames them: the
\* integer in data_width bits, the bit array as it is.
FramedWord(d) ==
    IF d.kind = "int" THEN from_int(d.v, data_width) ELSE d.bits

\* C3: every write of n >= 1 words that succeeds has made one transport call
\* whose payload is the WRITE opcode, the address in address_width bits and
\* the n words in order, each in data_width bits (2 + address_width +
\* n * data_width bits in all), asking for 0 result bits.
C3_WriteFraming ==
    \A t \in Threads :
        (WriteReturned(t) /\ Len(call[t].data) >= 1) =>
            LET n == Len(call[t].data)
                base == 2 + address_width
            IN  /\ call[t].sent = 1
                /\ call[t].num_result_bits = 0
                /\ Len(call[t].payload) = base + n * data_width
                /\ SubSeq(call[t].payload, 1, 2) = WRITE_OPCODE
                /\ to_int(SubSeq(call[t].payload, 3, base)) = call[t].address
                /\ \A i \in 1..n :
                      SubSeq(call[t].payload, base + (i - 1) * data_width + 1,
                             base + i * data_width) = FramedWord(call[t].data[i])

\* C4: a write whose address is negative or at least 2^address_width raises
\* the range error of the address encoding and makes no transport call.
C4_WriteAddressRange ==
    \A t \in Threads :
        (/\ call[t].op = "write"
         /\ (call[t].address < 0 \/ call[t].address >= Pow2(address_width)))
        => /\ pc[t] = "idle"
           /\ ret[t].status = "OutOfRange"
           /\ call[t].sent = 0
           /\ call[t].payload = <<>>

\* A write of one valid word at address 2^address_width has been rejected.
C4_Witness ==
    /\ call[1].op = "write"
    /\ call[1].address = Pow2(address_width)
    /\ call[1].data = <<IntWord(1)>>
    /\ ret[1].status = "OutOfRange"
    /\ call[1].sent = 0

\* C5: width discovery sends the SIZE opcode and asks for a constant number
\* of result bits, 1 skip bit plus two fields of (total - 1) / 2 bits each;
\* the skip bit is dropped, address_width is the value of the first field
\* and data_width the value of the second.
C5_SizeFraming ==
    sizeCall.sent >= 1 =>
        LET total == sizeCall.num_result_bits
            half == (total - 1) \div 2
        IN  /\ sizeCall.payload = SIZE_OPCODE
            /\ total = SIZE_RESULT_LENGTH + 1
            /\ total = 1 + 2 * half
            /\ Len(sizeCall.response) = total =>
                /\ address_width = to_int(SubSeq(sizeCall.response, 2, 1 + half))
                /\ data_width =
                       to_int(SubSeq(sizeCall.response, 2 + half, 1 + 2 * half))

\* The module answered with the skip bit set and two different widths.
C5_Witness ==
    /\ sizeCall.sent = 1
    /\ Len(sizeCall.response) = sizeCall.num_result_bits
    /\ sizeCall.response[1] = 1
    /\ address_width = 3
    /\ data_width = 2

\* C6 as stated: with the module answering skip bit 0, address width 16 and
\* data width 8, the SIZE transaction asks for a 25-bit response and the
\* widths are (16, 8).
C6_SizeExample25 ==
    (/\ sizeCall.sent >= 1
     /\ sizeCall.response =
            <<0>> \o from_int(16, SIZE_RESULT_LENGTH \div 2)
                  \o from_int(8, SIZE_RESULT_LENGTH \div 2))
    => /\ sizeCall.num_result_bits = 25
       /\ address_width = 16
       /\ data_width = 8

\* C6: with the module answering skip bit 0, then 16 and 8 in two 8-bit
\* fields, the SIZE transaction has asked for that 17-bit response, the
\* widths are (16, 8) and the instance is ready.
C6_SizeExample17 ==
    (/\ sizeCall.sent >= 1
     /\ sizeCall.response = <<0>> \o from_int(16, 8) \o from_int(8, 8))
    => /\ sizeCall.num_result_bits = 17
       /\ Len(sizeCall.response) = 17
       /\ address_width = 16
       /\ data_width = 8
       /\ state = "Ready"

\* The module has answered skip bit 0, address width 16, data width 8.
C6_Witness ==
    /\ sizeCall.sent = 1
    /\ sizeCall.response = <<0,  0, 0, 0, 0, 1, 0, 0, 0,  0, 0, 0, 1, 0, 0, 0, 0>>
    /\ address_width = 16
    /\ data_width = 8

\* The SIZE transaction returned a result (send_rcv did not raise).
SizeAnswered == sizeCall.sent >= 1 /\ sizeCall.response # <<>>

\* C7: when the SIZE transaction yields an address width or a data width of
\* 0, the constructor has raised on its assert (the configuration error),
\* the instance is not ready, and no thread has made or is making a read or
\* write transport call.
C7_ZeroWidthIsTerminal ==
    (SizeAnswered /\ (address_width = 0 \/ data_width = 0))
    => /\ state = "Failed"
       /\ initError = "AssertionError"
       /\ \A t \in Threads : pc[t] = "idle" /\ call[t].sent = 0

\* The module reported a data width of 0 with an address width of 16.
C7_Witness ==
    /\ SizeAnswered
    /\ address_width = 16
    /\ data_width = 0
    /\ state = "Failed"

C9_WidthsImmutable ==
    [][/\ sizeCall'.sent <= 1
       /\ state # "Uninitialized" => (sizeCall.sent = 1 /\ state' = state)
       /\ state = "Ready" =>
             /\ state' = "Ready"
             /\ address_width' = address_width
             /\ data_width' = data_width
             /\ sizeCall' = sizeCall]_vars

\* On a ready instance a write of thread 1 has been cancelled in the transport.
C9_Witness ==
    /\ state = "Ready"
    /\ sizeCall.sent = 1
    /\ call[1].op = "write"
    /\ ret[1].status = "Cancelled"

\* C10: at no moment are two send_rcv calls of the instance in progress.
C10_NoOverlappingTransportCalls ==
    Cardinality({t \in Threads : pc[t] # "idle"}) <= 1

\* The widths are those the SIZE transaction of the constructor returned.
WidthsAsDiscovered ==
    /\ address_width = MemWidths(sizeCall.response)[1]
    /\ data_width = MemWidths(sizeCall.response)[2]

\* Thread t's last operation has ended, by a return or an exception.
Ended(t) == call[t].op # "none" /\ pc[t] = "idle"

Failures == {"Cancelled", "TransportError", "OutOfRange"}

\* The payload of a write as section 6 frames it.
RECURSIVE FramedData(_)
FramedData(data) ==
    IF data = <<>> THEN <<>> ELSE FramedWord(Head(data)) \o FramedData(Tail(data))

\* The transport call of thread t's operation is the one its arguments ask
\* for under the discovered widths.
FramedNormally(t) ==
    /\ call[t].sent = 1
    /\ to_int(SubSeq(call[t].payload, 3, 2 + address_width)) = call[t].address
    /\ IF call[t].op = "read"
       THEN /\ call[t].payload
                  = READ_OPCODE \o SubSeq(call[t].payload, 3, 2 + address_width)
            /\ call[t].num_result_bits
                  = (call[t].num_of_reads + 1) * data_width
       ELSE /\ call[t].payload
                  = WRITE_OPCODE \o SubSeq(call[t].payload, 3, 2 + address_width)
                                 \o FramedData(call[t].data)
            /\ call[t].num_result_bits = 0

\* The arguments of thread t's operation pass from_int.
ValidArguments(t) ==
    /\ call[t].address >= 0
    /\ call[t].address < Pow2(address_width)
    /\ \A i \in 1..Len(call[t].data) :
          call[t].data[i].kind = "int" =>
              (call[t].data[i].v >= 0 /\ call[t].data[i].v < Pow2(data_width))

\* A read or write that failed with Cancelled, TransportError or OutOfRange
\* left the instance ready with its widths, and the next valid read or
\* write is framed as always.
FailureLeavesInstanceReady ==
    \A t \in Threads :
        /\ (Ended(t) /\ ret[t].status \in Failures)
           => (state = "Ready" /\ WidthsAsDiscovered)
        /\ (call[t].op # "none" /\ call[t].after \in Failures)
           => /\ state = "Ready"
              /\ WidthsAsDiscovered
              /\ ValidArguments(t) => FramedNormally(t)

\* C12 as stated: a failed read or write leaves the instance ready and the
\* next operation framed as always, and the only failure that makes an
\* instance unusable is the configuration error of the zero widths.
C12_OnlyConfigurationErrorIsTerminal ==
    /\ FailureLeavesInstanceReady
    /\ state = "Failed" => initError = "AssertionError"

\* C12: a failed read or write leaves the instance ready and the next
\* operation framed as always; an instance is unusable only when its
\* constructor raised, on the zero widths or on a failure of the SIZE
\* transaction in the transport, before any read or write.
C12_FailuresLeaveInstanceReusable ==
    /\ FailureLeavesInstanceReady
    /\ state = "Failed" =>
          /\ initError \in {"AssertionError", "TransportError", "Cancelled"}
          /\ \A t \in Threads : call[t].op = "none"

\* After a read that failed in the transport, a write of two words is in
\* the transport.
C12_Witness ==
    /\ call[1].op = "write"
    /\ call[1].after = "TransportError"
    /\ pc[1] = "write_rcv"
    /\ Len(call[1].data) = 2
    /\ FramedNormally(1)

RECURSIVE Concat(_)
Concat(words) == IF words = <<>> THEN <<>> ELSE Head(words) \o Concat(Tail(words))

\* C13: a read of count >= 1 words that got all the bits it asked for returns
\* one data_width-bit word when count is 1 and otherwise a list of exactly
\* count words of data_width bits each; in both cases the words, in order,
\* are the response bits from data_width up to (count + 1) * data_width.
C13_ReadResultShape ==
    \A t \in Threads :
        (/\ ReadReturned(t)
         /\ call[t].num_of_reads >= 1
         /\ Len(ret[t].response) = (call[t].num_of_reads + 1) * data_width)
        => /\ ret[t].kind = (IF call[t].num_of_reads = 1 THEN "word" ELSE "list")
           /\ Len(ret[t].words) = call[t].num_of_reads
           /\ \A k \in 1..Len(ret[t].words) : Len(ret[t].words[k]) = data_width
           /\ Concat(ret[t].words)
                 = SubSeq(ret[t].response, data_width + 1,
                          (call[t].num_of_reads + 1) * data_width)

\* A read of one word has returned a single word of 8 bits.
C13_Witness ==
    /\ ReadReturned(1)
    /\ call[1].num_of_reads = 1
    /\ ret[1].kind = "word"
    /\ Len(ret[1].words[1]) = data_width
    /\ data_width = 8

\* Word d of a write does not fit in data_width bits.
Oversized(d) ==
    IF d.kind = "int" THEN d.v < 0 \/ d.v >= Pow2(data_width)
    ELSE Len(d.bits) > data_width

\* C14: a write with a word that does not fit in data_width bits, given as an
\* integer or as a bit array, raises the range error and makes no transport
\* call.
C14_WriteRejectsOversizedWords ==
    \A t \in Threads :
        (/\ call[t].op = "write"
         /\ \E i \in 1..Len(call[t].data) : Oversized(call[t].data[i]))
        => /\ pc[t] = "idle"
           /\ ret[t].status = "OutOfRange"
           /\ call[t].sent = 0

\* C15: a write with no words is rejected without a transport call, and no
\* write sends a payload of the opcode and the address alone.
C15_EmptyWriteRejected ==
    \A t \in Threads :
        /\ (call[t].op = "write" /\ call[t].data = <<>>)
           => /\ pc[t] = "idle"
              /\ ret[t].status \notin {"ok", "none"}
              /\ call[t].sent = 0
        /\ (call[t].op = "write" /\ call[t].sent >= 1)
           => Len(call[t].payload) > 2 + address_width

\* C16: a read whose address is negative or at least 2^address_width raises
\* the range error of the address encoding and makes no transport call.
C16_ReadAddressRange ==
    \A t \in Threads :
        (/\ call[t].op = "read"
         /\ (call[t].address < 0 \/ call[t].address >= Pow2(address_width)))
        => /\ pc[t] = "idle"
           /\ ret[t].status = "OutOfRange"
           /\ ret[t].words = <<>>
           /\ call[t].sent = 0

\* A read at address 2^address_width was rejected for two words of 2 bits.
C16_Witness ==
    /\ call[1].op = "read"
    /\ address_width = 3
    /\ call[1].address = Pow2(address_width)
    /\ call[1].num_of_reads = 2
    /\ ret[1].status = "OutOfRange"
    /\ call[1].sent = 0

\* C17: a read of fewer than one word is rejected: it makes no transport call
\* and returns no result.
C17_ReadRejectsCountBelowOne ==
    \A t \in Threads :
        (call[t].op = "read" /\ call[t].num_of_reads < 1)
        => /\ pc[t] = "idle"
           /\ ret[t].status \notin {"ok", "none"}
           /\ call[t].sent = 0

\* C18: a read whose transport delivered fewer bits than the
\* (count + 1) * data_width it asked for ends with the transport error and
\* no result; a read that returns a result returns count words of data_width
\* bits each, never fewer words and never a shorter word.
C18_ShortResponseIsTransportError ==
    \A t \in Threads :
        /\ (/\ Ended(t)
            /\ call[t].op = "read"
            /\ call[t].sent >= 1
            /\ ret[t].status # "Cancelled"
            /\ Len(ret[t].response) < (call[t].num_of_reads + 1) * data_width)
           => /\ ret[t].status = "TransportError"
              /\ ret[t].kind = "none"
              /\ ret[t].words = <<>>
        /\ (ReadReturned(t) /\ call[t].num_of_reads >= 1)
           => /\ Len(ret[t].words) = call[t].num_of_reads
              /\ \A k \in 1..Len(ret[t].words) : Len(ret[t].words[k]) = data_width

\* A read of two words of 8 bits got 23 of its 24 bits and raised the
\* transport error.
C18_Witness ==
    /\ Ended(1)
    /\ call[1].op = "read"
    /\ call[1].num_of_reads = 2
    /\ data_width = 8
    /\ Len(ret[1].response) = 23
    /\ ret[1].status = "TransportError"
    /\ ret[1].words = <<>>

\* C19: a read, a write or the SIZE transaction whose transport call failed
\* has made that one call only and has ended with the failure of the call:
\* no transport call is made again.
C19_NoRetry ==
    /\ \A t \in Threads :
          /\ call[t].sent <= 1
          /\ (call[t].sent = 1 /\ ret[t].status \in {"TransportError", "Cancelled"})
             => pc[t] = "idle"
          /\ (pc[t] = "idle" /\ call[t].sent = 1) =>
                ret[t].status \in {"ok", "TransportError", "Cancelled"}
    /\ sizeCall.sent <= 1
    /\ initError \in {"TransportError", "Cancelled"}
          => (sizeCall.sent = 1 /\ state = "Failed")

\* A read that followed a failed transport call failed in its own one
\* transport call.
C19_Witness ==
    /\ Ended(1)
    /\ call[1].op = "read"
    /\ call[1].sent = 1
    /\ ret[1].status = "TransportError"
    /\ call[1].after = "TransportError"

C21_PayloadStartsWithOwnOpcode ==
    /\ Cardinality({NOP_OPCODE, READ_OPCODE, WRITE_OPCODE, SIZE_OPCODE}) = 4
    /\ \A o \in {NOP_OPCODE, READ_OPCODE, WRITE_OPCODE, SIZE_OPCODE} : Len(o) = 2
    /\ <<to_int(NOP_OPCODE), to_int(READ_OPCODE), to_int(WRITE_OPCODE),
         to_int(SIZE_OPCODE)>> = <<0, 3, 2, 1>>
    /\ sizeCall.sent >= 1 => SubSeq(sizeCall.payload, 1, 2) = SIZE_OPCODE
    /\ \A t \in Threads :
          call[t].sent >= 1 =>
             /\ call[t].op = "read" => SubSeq(call[t].payload, 1, 2) = READ_OPCODE
             /\ call[t].op = "write" => SubSeq(call[t].payload, 1, 2) = WRITE_OPCODE
             /\ SubSeq(call[t].payload, 1, 2) # NOP_OPCODE

\* After the SIZE transaction, a read is in the transport with a payload
\* that starts with bits 1, 1.
C21_Witness ==
    /\ sizeCall.sent = 1
    /\ sizeCall.payload = <<1, 0>>
    /\ call[1].op = "read"
    /\ pc[1] = "read_rcv"
    /\ SubSeq(call[1].payload, 1, 2) = <<1, 1>>

\* The widest bit array of the round trip of from_int and to_int.
MaxRoundTripWidth == 4

AsVectors(data) ==
    [i \in 1..Len(data) |->
        IF data[i].kind = "int" THEN BitsWord(from_int(data[i].v, data_width))
        ELSE data[i]]

\* The largest word value for which the two ways of giving a word are compared.
MaxWordValue == 4

C24_InstancesShareNoMutableState ==
    /\ opcodes = ClassOpcodes
    /\ state = "Ready" => WidthsAsDiscovered
    /\ other.state = "Ready" =>
          <<other.address_width, other.data_width>> = MemWidths(other.response)
    /\ other.sent = 1 =>
          other.payload = READ_OPCODE \o from_int(other.address, other.address_width)
    /\ call[1].sent = 1 =>
          call[1].payload
             = (IF call[1].op = "read" THEN READ_OPCODE ELSE WRITE_OPCODE)
                  \o from_int(call[1].address, address_width)
                  \o FramedData(call[1].data)

\* Both instances are ready with different widths; the second has sent a
\* read after a write of the first.
C24_Witness ==
    /\ state = "Ready"
    /\ other.state = "Ready"
    /\ other.address_width # address_width
    /\ call[1].op = "write"
    /\ call[1].sent = 1
    /\ other.sent = 1
    /\ other.payload = <<1, 1>> \o from_int(other.address, other.address_width)
    /\ other.address # call[1].address

\* Worker w's run has ended, by a return or by an exception it did not catch.
RunEnded(w) == worker[w].pc \in {"done", "crashed"}

\* Worker w is started and has not sent its Cleanup message.
InProgress(w) == worker[w].pc \in {"started", "running"}

\* C26: every worker thread whose run has ended has sent the Cleanup message
\* of its panel exactly once; no started operation ends without it.
C26_CleanupSentOncePerRun ==
    \A w \in Ops : RunEnded(w) => worker[w].cleanups = 1

\* C27: the progress dialog of an operation is destroyed once: Destroy is
\* never called a second time on a dialog.
C27_DialogDestroyedOnce ==
    \A d \in Ops : dialog[d].destroyed <= 1

\* C28: while an operation with a progress dialog is in progress, a firmware
\* update included, the timer is running and publishes Progress.Pulse, so
\* that an abort on the dialog is observed.
C28_TimerRunsDuringOperation ==
    \A w \in Ops : (InProgress(w) /\ dialog[w].listening) => timer

\* C29: active_board is not None where a worker's run or a dialog's close
\* uses it: no run and no close has raised on None.
C29_ActiveBoardNotNoneAtUse ==
    /\ \A w \in Ops : worker[w].pc # "crashed"
    /\ \A d \in Ops : ~dialog[d].close_error

\* C30: at most one worker thread is started and has not yet sent its
\* Cleanup message.
C30_OneWorkerAtATime ==
    Cardinality({w \in Ops : InProgress(w)}) <= 1

\* C31: the cleanup of a panel is subscribed to its Cleanup topic exactly
\* while an operation of the panel is in progress, so not after the operation
\* has ended; and the Cleanup message of a worker thread destroys the dialog
\* of that thread's operation.
C31_CleanupSubscriptionsBalanced ==
    /\ \A p \in Panels :
          subscribed[p] <=>
             \E w \in Ops : InProgress(w) /\ PanelOf(worker[w].op) = p
    /\ \A w \in Ops : worker[w].pc = "done" => worker[w].cleaned = w

\* C32: a dialog that was called with a Progress.Pct message of value v has
\* stored v as its value without raising, and its bar shows v, also after a
\* later Progress.Phase message.
C32_PctStoredAndRedisplayed ==
    \A d \in Ops :
       dialog[d].pct_sent # 0 =>
          /\ ~dialog[d].pct_error
          /\ dialog[d].value = dialog[d].pct_sent
          /\ dialog[d].bar = dialog[d].pct_sent

====
